---- MODULE Spec2Model ----
(***************************************************************************)
(* Model of FilterParserThread (src/base/bittorrent/private/               *)
(* filterparserthread.cpp): the IP filter parsers for the eMule DAT, the   *)
(* PeerGuardian P2P and the PeerGuardian P2B formats, the worker thread    *)
(* that runs them and the caller-side operations processFilterFile,        *)
(* IPfilter and the destructor.                                            *)
(*                                                                         *)
(* Text is a sequence of one-character strings, a text file a sequence of  *)
(* lines, a binary file a sequence of bytes (0..255).                      *)
(***************************************************************************)
EXTENDS Integers, Sequences, FiniteSets, TLC

(***************************************************************************)
(* Bounds of the model.                                                    *)
(***************************************************************************)
\* number of lines of a text file
MaxLines == 2
\* number of processFilterFile calls made by the caller
MaxCalls == 2

(***************************************************************************)
(* Text helpers (QByteArray / QString operations used by the parsers).     *)
(***************************************************************************)
Digits == <<"0", "1", "2", "3", "4", "5", "6", "7", "8", "9">>

IsDigit(c) == \E i \in 1..10 : Digits[i] = c

DigitVal(c) == (CHOOSE i \in 1..10 : Digits[i] = c) - 1

IsSpace(c) == c = " "

RECURSIVE DropLeadingSpace(_)
DropLeadingSpace(s) ==
    IF s # <<>> /\ IsSpace(Head(s)) THEN DropLeadingSpace(Tail(s)) ELSE s

RECURSIVE DropTrailingSpace(_)
DropTrailingSpace(s) ==
    IF s # <<>> /\ IsSpace(s[Len(s)])
    THEN DropTrailingSpace(SubSeq(s, 1, Len(s) - 1))
    ELSE s

\* QByteArray::trimmed / QString::trimmed
trimmed(s) == DropTrailingSpace(DropLeadingSpace(s))

\* QByteArray::startsWith
startsWith(s, p) == Len(s) >= Len(p) /\ SubSeq(s, 1, Len(p)) = p

\* QByteArray::split(sep): empty parts are kept, the result is never empty
RECURSIVE SplitFrom(_, _, _)
SplitFrom(s, sep, cur) ==
    IF s = <<>> THEN <<cur>>
    ELSE IF Head(s) = sep THEN <<cur>> \o SplitFrom(Tail(s), sep, <<>>)
    ELSE SplitFrom(Tail(s), sep, Append(cur, Head(s)))

split(s, sep) == SplitFrom(s, sep, <<>>)

\* QString::split(sep, QString::SkipEmptyParts)
splitSkipEmptyParts(s, sep) == SelectSeq(split(s, sep), LAMBDA p : p # <<>>)

\* QStringList::join(sep)
RECURSIVE join(_, _)
join(parts, sep) ==
    IF parts = <<>> THEN <<>>
    ELSE IF Len(parts) = 1 THEN parts[1]
    ELSE parts[1] \o <<sep>> \o join(Tail(parts), sep)

RECURSIVE DecimalValue(_, _)
DecimalValue(s, acc) ==
    IF s = <<>> THEN acc ELSE DecimalValue(Tail(s), acc * 10 + DigitVal(Head(s)))

AllDigits(s) == s # <<>> /\ \A i \in 1..Len(s) : IsDigit(s[i])

IntMaxDigits == <<"2", "1", "4", "7", "4", "8", "3", "6", "4", "7">>

RECURSIVE DropLeadingZeros(_)
DropLeadingZeros(s) ==
    IF Len(s) > 1 /\ Head(s) = "0" THEN DropLeadingZeros(Tail(s)) ELSE s

\* a <= b for two digit texts of the same length
RECURSIVE DigitsLeq(_, _)
DigitsLeq(a, b) ==
    IF a = <<>> THEN TRUE
    ELSE IF DigitVal(Head(a)) < DigitVal(Head(b)) THEN TRUE
    ELSE IF DigitVal(Head(a)) > DigitVal(Head(b)) THEN FALSE
    ELSE DigitsLeq(Tail(a), Tail(b))

\* the magnitude fits an int (the value -2^31 is kept apart)
FitsInt(digits) ==
    \/ Len(digits) < 10
    \/ Len(digits) = 10 /\ DigitsLeq(digits, IntMaxDigits)

\* QByteArray::toInt(): base 10, an optional sign, 0 when the text is not a
\* number or does not fit an int
toInt(s) ==
    LET neg  == s # <<>> /\ Head(s) = "-"
        body == IF s # <<>> /\ Head(s) \in {"-", "+"} THEN Tail(s) ELSE s
    IN  IF ~AllDigits(body) THEN 0
        ELSE LET d == DropLeadingZeros(body)
             IN  IF FitsInt(d)
                 THEN (IF neg THEN 0 - DecimalValue(d, 0) ELSE DecimalValue(d, 0))
                 ELSE IF neg /\ d = <<"2", "1", "4", "7", "4", "8", "3", "6", "4", "8">>
                 THEN (0 - 2147483647) - 1
                 ELSE 0

(***************************************************************************)
(* Addresses.  An address is [fam |-> 4 or 6, val |-> v]; the value of an  *)
(* IPv4 address is its four octets, most significant first.                *)
(***************************************************************************)
V4(n) == [fam |-> 4, val |-> n]
V6(n) == [fam |-> 6, val |-> n]

\* one decimal field of a dotted quad as inet_pton takes it: 1 to 3 digits,
\* no leading zero unless the field is "0", at most 255
IsOctet(s) ==
    /\ AllDigits(s)
    /\ Len(s) <= 3
    /\ (Len(s) > 1 => Head(s) # "0")
    /\ DecimalValue(s, 0) <= 255

\* the IPv6 literals of the model, with their values
V6Literals == { <<":", ":", "1">>, <<":", ":", "2">> }

V6Value(s) == DigitVal(s[3])

\* libt::address::from_string: an IPv6 literal or a strict dotted quad
from_string(s) ==
    IF s \in V6Literals THEN [ok |-> TRUE, addr |-> V6(V6Value(s))]
    ELSE LET parts == split(s, ".")
         IN  IF Len(parts) = 4 /\ \A i \in 1..4 : IsOctet(parts[i])
             THEN [ok |-> TRUE,
                   addr |-> V4([i \in 1..4 |-> DecimalValue(parts[i], 0)])]
             ELSE [ok |-> FALSE, addr |-> V4(<<0, 0, 0, 0>>)]

\* the octet loop of parseIPAddress: at most two leading zeros are removed
StripOctet(octet) ==
    IF octet[1] = "0" /\ Len(octet) > 1
    THEN IF octet[2] = "0" /\ Len(octet) > 2
         THEN SubSeq(octet, 3, Len(octet))
         ELSE SubSeq(octet, 2, Len(octet))
    ELSE octet

NormalizeIP(_ip) ==
    LET t      == trimmed(_ip)
        octets == splitSkipEmptyParts(t, ".")
    IN  IF Len(octets) = 4
        THEN join([i \in 1..4 |-> StripOctet(octets[i])], ".")
        ELSE t

parseIPAddress(_ip) == from_string(NormalizeIP(_ip))

(***************************************************************************)
(* The range set.  m_filter is the sequence of the ranges added since it   *)
(* was last replaced by a fresh libt::ip_filter().                         *)
(***************************************************************************)
EmptyFilter == <<>>

\* libt::ip_filter::add_rule rejects a range whose ends differ in family
add_rule_throws(first, last) == first.fam # last.fam

add_rule(filter, first, last) == Append(filter, [first |-> first, last |-> last])

(***************************************************************************)
(* One line of a text filter.  The result is [kind, first, last]: kind is  *)
(* "rule" when the line reaches add_rule, else the reason it is skipped.   *)
(***************************************************************************)
Skip(why) == [kind |-> why, first |-> V4(<<0, 0, 0, 0>>), last |-> V4(<<0, 0, 0, 0>>)]

IsComment(line) == startsWith(line, <<"#">>) \/ startsWith(line, <<"/", "/">>)

\* from the split on '-' to the family checks, the same in both text parsers
ParseRange(text) ==
    LET IPs == split(text, "-")
    IN  IF Len(IPs) # 2 THEN Skip("malformed")
        ELSE LET startAddr == parseIPAddress(IPs[1])
                 endAddr   == parseIPAddress(IPs[2])
             IN  IF ~startAddr.ok THEN Skip("bad_start")
                 ELSE IF ~endAddr.ok THEN Skip("bad_end")
                 ELSE IF (startAddr.addr.fam = 4) # (endAddr.addr.fam = 4)
                 THEN Skip("family")
                 ELSE IF (startAddr.addr.fam = 6) # (endAddr.addr.fam = 6)
                 THEN Skip("family")
                 ELSE [kind |-> "rule", first |-> startAddr.addr, last |-> endAddr.addr]

\* the access value above which a DAT rule is ignored
MaxBlockedAccess == 127

\* a loop body that also ignores the rule when the access field is no number
ParseDATLineStrictAccess(raw) ==
    LET line == trimmed(raw)
    IN  IF line = <<>> THEN Skip("empty")
        ELSE IF IsComment(line) THEN Skip("comment")
        ELSE LET partsList == split(line, ",")
             IN  IF Len(partsList) > 1
                    /\ (toInt(trimmed(partsList[2])) > MaxBlockedAccess
                        \/ ~AllDigits(trimmed(partsList[2])))
                 THEN Skip("access")
                 ELSE ParseRange(partsList[1])

\* the body of the loop of parseDATFilterFile on one line read
ParseDATLine(raw) ==
    LET line == trimmed(raw)
    IN  IF line = <<>> THEN Skip("empty")
        ELSE IF IsComment(line) THEN Skip("comment")
        ELSE LET partsList == split(line, ",")
             IN  IF Len(partsList) > 1
                    /\ toInt(trimmed(partsList[2])) > MaxBlockedAccess
                 THEN Skip("access")
                 ELSE ParseRange(partsList[1])

\* the body of the loop of parseP2PFilterFile on one line read
ParseP2PLine(raw) ==
    LET line == trimmed(raw)
    IN  IF line = <<>> THEN Skip("empty")
        ELSE IF IsComment(line) THEN Skip("comment")
        ELSE LET partsList == split(line, ":")
             IN  IF Len(partsList) < 2 THEN Skip("malformed")
                 ELSE ParseRange(partsList[Len(partsList)])

(***************************************************************************)
(* Format dispatch of run(): the suffix of the path, without regard to     *)
(* case.                                                                   *)
(***************************************************************************)
Upper == <<"P", "B", "D", "A", "T", "X">>
Lower == <<"p", "b", "d", "a", "t", "x">>

toLower(c) == IF \E i \in 1..Len(Upper) : Upper[i] = c
              THEN Lower[CHOOSE i \in 1..Len(Upper) : Upper[i] = c]
              ELSE c

toLowerText(s) == [i \in 1..Len(s) |-> toLower(s[i])]

\* QString::endsWith(suffix) with the default Qt::CaseSensitive
endsWithCaseSensitive(s, suffix) ==
    /\ Len(s) >= Len(suffix)
    /\ SubSeq(s, Len(s) - Len(suffix) + 1, Len(s)) = suffix

\* QString::endsWith(suffix, Qt::CaseInsensitive)
endsWith(s, suffix) ==
    /\ Len(s) >= Len(suffix)
    /\ toLowerText(SubSeq(s, Len(s) - Len(suffix) + 1, Len(s))) = toLowerText(suffix)

Dispatch(filePath) ==
    IF endsWith(filePath, <<".", "p", "2", "p">>) THEN "p2p"
    ELSE IF endsWith(filePath, <<".", "p", "2", "b">>) THEN "p2b"
    ELSE IF endsWith(filePath, <<".", "d", "a", "t">>) THEN "dat"
    ELSE "none"

(***************************************************************************)
(* The byte stream of the P2B parser.  A local variable of 4 bytes is its  *)
(* memory, in address order; the bytes a read does not reach keep what     *)
(* they held.                                                              *)
(***************************************************************************)
Min(a, b) == IF a < b THEN a ELSE b

\* QDataStream::readRawData(dst, n) at offset pos: the number of bytes read
readRawData(bytes, pos, n) == Min(n, Len(bytes) - pos)

\* the memory of dst after that read
ReadInto(mem, bytes, pos, n) ==
    [k \in 1..Len(mem) |->
        IF k <= readRawData(bytes, pos, n) THEN bytes[pos + k] ELSE mem[k]]

\* the bytes up to and including the first delim after pos, or up to the end
RECURSIVE getlineInStream(_, _, _)
getlineInStream(bytes, pos, delim) ==
    IF pos >= Len(bytes) THEN 0
    ELSE IF bytes[pos + 1] = delim THEN 1
    ELSE 1 + getlineInStream(bytes, pos + 1, delim)

\* the value of an unsigned int in memory on a little-endian host, as its
\* four base-256 digits, most significant first
LoadWord(mem) == <<mem[4], mem[3], mem[2], mem[1]>>

\* a conversion that leaves the word in the byte order of the host
ntohlMissing(w) == w

\* network byte order to host byte order on that host
ntohl(w) == <<w[4], w[3], w[2], w[1]>>

\* libt::address_v4(unsigned long)
address_v4(w) == V4(w)

\* i < n for a loop index i and an unsigned int n
IndexBelow(i, w) == w[1] > 0 \/ i < (w[2] * 256 + w[3]) * 256 + w[4]

Magic == <<255, 255, 255, 255, 80, 50, 66>>

(***************************************************************************)
(* The inputs of the model: paths, text lines, files.                      *)
(***************************************************************************)
Paths ==
    { <<"a", ".", "p", "2", "p">>,
      <<"a", ".", "P", "2", "B">>,
      <<"a", ".", "D", "a", "t">>,
      <<"a", ".", "t", "x", "t">>,
      <<"a", "p", "2", "p">> }

A1 == <<"1", ".", "2", ".", "3", ".", "4">>
A2 == <<"1", ".", "2", ".", "3", ".", "9">>
A3 == <<"5", ".", "6", ".", "7", ".", "8">>
A4 == <<"5", ".", "6", ".", "7", ".", "9">>
\* an address with leading zeros, and a text that is no address
APadded == <<"0", "0", "1", ".", "0", "0", "2", ".", "0", "3", ".", "0">>
ABad == <<"1", ".", "2", ".", "3">>
\* four octets with an empty field between two dots
AGap == <<"1", ".", ".", "2", ".", "3", ".", "4">>
A6a == <<":", ":", "1">>
A6b == <<":", ":", "2">>

Range(a, b) == a \o <<"-">> \o b

DatLinePool ==
    { Range(A1, A2),
      Range(A3, A4) \o <<",", "1", "2", "7">>,
      Range(A1, A2) \o <<",", " ", "1", "2", "8", " ", ",", "x">>,
      Range(A3, A4) \o <<",", "x", ",", "2", "0", "0">>,
      A1 \o <<",", "5", "0">>,
      <<" ", "#", "c">>,
      Range(A6a, A2),
      Range(A6a, A6b),
      Range(APadded, A2) \o <<",", "9", "9", "9", "9", "9", "9", "9", "9", "9", "9">>,
      Range(AGap, A2) }

P2PLinePool ==
    { <<"t", ":">> \o Range(A1, A2),
      <<"t", ":", "u", ":", " ">> \o Range(APadded, A4) \o <<" ">>,
      Range(A1, A2),
      <<" ", " ">>,
      <<"t", ":">> \o Range(A6a, A6b),
      <<"t", ":">> \o Range(A1, ABad),
      <<"t", ":">> \o Range(A1, A6a) }

\* the sequences of at most n elements of S
RECURSIVE SeqsUpTo(_, _)
SeqsUpTo(S, n) ==
    IF n = 0 THEN { <<>> }
    ELSE LET shorter == SeqsUpTo(S, n - 1)
         IN  shorter \cup { Append(q, x) : q \in { r \in shorter : Len(r) = n - 1 }, x \in S }

\* what QFile finds at the path: st is "missing", "unopenable" or "ok"
FileOf(data) == [st |-> "ok", data |-> data]
MissingFile == [st |-> "missing", data |-> <<>>]
UnopenableFile == [st |-> "unopenable", data |-> <<>>]
NoFile == [st |-> "none", data |-> <<>>]

DatFiles == { MissingFile, UnopenableFile } \cup { FileOf(d) : d \in SeqsUpTo(DatLinePool, MaxLines) }
P2PFiles == { MissingFile, UnopenableFile } \cup { FileOf(d) : d \in SeqsUpTo(P2PLinePool, MaxLines) }

Hdr(v) == Magic \o <<v>>
\* a record of versions 1 and 2, an entry of version 3
Rec(name, s, e) == name \o <<0>> \o s \o e
Ent(idx, s, e) == idx \o s \o e

FullP2B ==
    { Hdr(1) \o Rec(<<97>>, <<1, 2, 3, 4>>, <<1, 2, 3, 9>>) \o Rec(<<>>, <<5, 6, 7, 8>>, <<5, 6, 7, 9>>),
      Hdr(2) \o Rec(<<97, 98>>, <<10, 0, 0, 1>>, <<10, 0, 0, 2>>),
      Hdr(3) \o <<0, 0, 0, 1>> \o <<97, 0>> \o <<0, 0, 0, 2>>
             \o Ent(<<0, 0, 0, 0>>, <<1, 2, 3, 4>>, <<1, 2, 3, 9>>)
             \o Ent(<<0, 0, 0, 0>>, <<5, 6, 7, 8>>, <<5, 6, 7, 9>>),
      Hdr(3) \o <<255, 255, 255, 255>> \o <<97, 0>>,
      Hdr(3) \o <<0, 0, 0, 0>> \o <<0, 0, 1, 0>>
             \o Ent(<<0, 0, 0, 0>>, <<1, 2, 3, 4>>, <<1, 2, 3, 9>>),
      <<255, 255, 255, 254, 80, 50, 66, 1>> \o Rec(<<97>>, <<1, 2, 3, 4>>, <<1, 2, 3, 9>>),
      Hdr(9) \o Rec(<<97>>, <<1, 2, 3, 4>>, <<1, 2, 3, 9>>),
      Hdr(0) }

\* every file cut short at every length
P2BFiles ==
    { MissingFile, UnopenableFile }
        \cup UNION { { FileOf(SubSeq(f, 1, n)) : n \in 0..Len(f) } : f \in FullP2B }

\* what the uninitialized locals of parseP2BFilterFile may hold
Garbage ==
    { [buf |-> <<0, 0, 0, 0, 0, 0, 0>>, word |-> <<0, 0, 0, 0>>],
      [buf |-> Magic, word |-> <<255, 255, 255, 255>>] }

(***************************************************************************)
(* State.                                                                  *)
(***************************************************************************)
VARIABLES
    m_abort,      \* the cancellation flag; each read and write is one step
    m_filePath,   \* the path of the file to parse
    m_filter,     \* the range set
    wpc,          \* where the worker thread is
    cpc,          \* where the caller is
    calls,        \* processFilterFile calls made
    file,         \* the file the parser of this run opened
    pos,          \* lines read, or bytes consumed from the stream
    ruleCount,    \* ruleCount of the parser and of run()
    loc,          \* the other locals of parseP2BFilterFile
    signals,      \* signals emitted by this run
    log,          \* messages this run gave to Logger
    parsersRun,   \* parsers this run called
    abortReq,     \* whether m_abort was set during this run, and when
    sinceAbort,   \* records read and rules added by this run with m_abort set
    added,        \* the ranges that add_rule took in this run, in order
    got           \* what IPfilter() last returned to the caller

vars == <<m_abort, m_filePath, m_filter, wpc, cpc, calls, file, pos, ruleCount,
          loc, signals, log, parsersRun, abortReq, sinceAbort, added, got>>

None == [taken |-> FALSE, value |-> EmptyFilter]

NoneSince == [records |-> 0, rules |-> 0]

NoLocals == [i |-> 0, namecount |-> <<0, 0, 0, 0>>, rangecount |-> <<0, 0, 0, 0>>,
             start |-> <<0, 0, 0, 0>>, end |-> <<0, 0, 0, 0>>, name |-> <<0, 0, 0, 0>>,
             buf |-> <<0, 0, 0, 0, 0, 0, 0>>]

IPFilterParsed(n) == [sig |-> "IPFilterParsed", n |-> n]
IPFilterError == [sig |-> "IPFilterError", n |-> 0]

IOError == "I/O Error: Could not open ip filter file in read mode."
ParsingError == "Parsing Error: The filter file is not a valid PeerGuardian P2B file."

\* one more record read and rules more rules added (0 or 1): the range that
\* add_rule took is kept, and the pass is counted if m_abort is set
Decoded(rules) ==
    /\ sinceAbort' = IF m_abort
                     THEN [records |-> sinceAbort.records + 1,
                           rules   |-> sinceAbort.rules + rules]
                     ELSE sinceAbort
    /\ added' = IF rules = 1 THEN Append(added, m_filter'[Len(m_filter')]) ELSE added

\* QThread::isRunning
isRunning == wpc \notin {"idle", "finished"}

\* a wait() that returns at once, whatever the thread does
WaitReturnsAtOnce == TRUE

\* QThread::wait returns once the thread has finished or was never started
WaitReturns == ~isRunning

\* FilterParserThread::FilterParserThread
Init ==
    /\ m_abort = FALSE
    /\ m_filePath = <<>>
    /\ m_filter = EmptyFilter
    /\ wpc = "idle"
    /\ cpc = "idle"
    /\ calls = 0
    /\ file = NoFile
    /\ pos = 0
    /\ ruleCount = 0
    /\ loc = NoLocals
    /\ signals = <<>>
    /\ log = <<>>
    /\ parsersRun = <<>>
    /\ abortReq = "no"
    /\ sinceAbort = NoneSince
    /\ added = <<>>
    /\ got = None

(***************************************************************************)
(* The caller: processFilterFile, IPfilter and the destructor.             *)
(***************************************************************************)
\* what setting m_abort now means for the run in progress: "late" once the
\* run has made its last test of the flag
Requested ==
    IF ~isRunning THEN abortReq
    ELSE IF wpc = "run_emit" /\ abortReq = "no" THEN "late"
    ELSE IF abortReq = "no" THEN "early"
    ELSE abortReq

\* processFilterFile, the test of isRunning()
PFEnter ==
    /\ cpc = "idle"
    /\ calls < MaxCalls
    /\ calls' = calls + 1
    /\ got' = None
    /\ cpc' = IF isRunning THEN "pf_abort" ELSE "pf_reset"
    /\ UNCHANGED <<m_abort, m_filePath, m_filter, wpc, file, pos, ruleCount, loc,
                   signals, log, parsersRun, abortReq, sinceAbort, added>>

PFAbort ==
    /\ cpc = "pf_abort"
    /\ m_abort' = TRUE
    /\ abortReq' = Requested
    /\ cpc' = "pf_wait"
    /\ UNCHANGED <<m_filePath, m_filter, wpc, calls, file, pos, ruleCount, loc,
                   signals, log, parsersRun, sinceAbort, added, got>>

PFWait ==
    /\ cpc = "pf_wait"
    /\ WaitReturns
    /\ cpc' = "pf_reset"
    /\ UNCHANGED <<m_abort, m_filePath, m_filter, wpc, calls, file, pos, ruleCount,
                   loc, signals, log, parsersRun, abortReq, sinceAbort, added, got>>

PFReset ==
    /\ cpc = "pf_reset"
    /\ m_abort' = FALSE
    /\ cpc' = "pf_path"
    /\ UNCHANGED <<m_filePath, m_filter, wpc, calls, file, pos, ruleCount, loc,
                   signals, log, parsersRun, abortReq, sinceAbort, added, got>>

PFPath ==
    /\ cpc = "pf_path"
    /\ \E filePath \in Paths : m_filePath' = filePath
    /\ cpc' = "pf_filter"
    /\ UNCHANGED <<m_abort, m_filter, wpc, calls, file, pos, ruleCount, loc,
                   signals, log, parsersRun, abortReq, sinceAbort, added, got>>

\* a processFilterFile that keeps the range set of the run before
PFFilterKeeps ==
    /\ cpc = "pf_filter"
    /\ cpc' = "pf_start"
    /\ UNCHANGED <<m_abort, m_filePath, m_filter, wpc, calls, file, pos, ruleCount,
                   loc, signals, log, parsersRun, abortReq, sinceAbort, added, got>>

PFFilter ==
    /\ cpc = "pf_filter"
    /\ m_filter' = EmptyFilter
    /\ cpc' = "pf_start"
    /\ UNCHANGED <<m_abort, m_filePath, wpc, calls, file, pos, ruleCount, loc,
                   signals, log, parsersRun, abortReq, sinceAbort, added, got>>

\* QThread::start: nothing happens when the thread is running
PFStart ==
    /\ cpc = "pf_start"
    /\ cpc' = "idle"
    /\ IF isRunning
       THEN UNCHANGED <<wpc, file, pos, ruleCount, loc, signals, log, parsersRun, abortReq, sinceAbort, added>>
       ELSE /\ wpc' = "run"
            /\ file' = NoFile
            /\ pos' = 0
            /\ ruleCount' = 0
            /\ loc' = NoLocals
            /\ signals' = <<>>
            /\ log' = <<>>
            /\ parsersRun' = <<>>
            /\ abortReq' = "no"
            /\ sinceAbort' = NoneSince
            /\ added' = <<>>
    /\ UNCHANGED <<m_abort, m_filePath, m_filter, calls, got>>

IPfilter ==
    /\ cpc = "idle"
    /\ got' = [taken |-> TRUE, value |-> m_filter]
    /\ UNCHANGED <<m_abort, m_filePath, m_filter, wpc, cpc, calls, file, pos,
                   ruleCount, loc, signals, log, parsersRun, abortReq, sinceAbort, added>>

DtorAbort ==
    /\ cpc = "idle"
    /\ m_abort' = TRUE
    /\ abortReq' = Requested
    /\ cpc' = "d_wait"
    /\ UNCHANGED <<m_filePath, m_filter, wpc, calls, file, pos, ruleCount, loc,
                   signals, log, parsersRun, sinceAbort, added, got>>

DtorWait ==
    /\ cpc = "d_wait"
    /\ WaitReturns
    /\ cpc' = "destroyed"
    /\ UNCHANGED <<m_abort, m_filePath, m_filter, wpc, calls, file, pos, ruleCount,
                   loc, signals, log, parsersRun, abortReq, sinceAbort, added, got>>

(***************************************************************************)
(* The worker: run() and the text parsers.                                 *)
(***************************************************************************)
RunDispatch ==
    /\ wpc = "run"
    /\ LET parser == Dispatch(m_filePath)
       IN  /\ wpc' = IF parser = "none" THEN "run_check" ELSE parser \o "_open"
           /\ parsersRun' = IF parser = "none" THEN parsersRun ELSE Append(parsersRun, parser)
    /\ UNCHANGED <<m_abort, m_filePath, m_filter, cpc, calls, file, pos, ruleCount,
                   loc, signals, log, abortReq, sinceAbort, added, got>>

\* parsers that log the I/O error for a missing file as well
OpenFileLogsMissing(parser, files, garbage) ==
    /\ wpc = parser \o "_open"
    /\ \E f \in files, g \in garbage :
          /\ file' = f
          /\ loc' = [NoLocals EXCEPT !.buf = g.buf, !.namecount = g.word,
                                     !.rangecount = g.word, !.start = g.word,
                                     !.end = g.word, !.name = g.word]
          /\ log' = IF f.st # "ok" THEN Append(log, IOError) ELSE log
          /\ wpc' = IF f.st = "ok"
                    THEN (IF parser = "p2b" THEN "p2b_header" ELSE parser \o "_loop")
                    ELSE "run_check"
    /\ pos' = 0
    /\ ruleCount' = 0
    /\ UNCHANGED <<m_abort, m_filePath, m_filter, cpc, calls, signals, parsersRun,
                   abortReq, sinceAbort, added, got>>

\* QFile file(m_filePath), exists() and open() of the three parsers
OpenFile(parser, files, garbage) ==
    /\ wpc = parser \o "_open"
    /\ \E f \in files, g \in garbage :
          /\ file' = f
          /\ loc' = [NoLocals EXCEPT !.buf = g.buf, !.namecount = g.word,
                                     !.rangecount = g.word, !.start = g.word,
                                     !.end = g.word, !.name = g.word]
          /\ log' = IF f.st = "unopenable" THEN Append(log, IOError) ELSE log
          /\ wpc' = IF f.st = "ok"
                    THEN (IF parser = "p2b" THEN "p2b_header" ELSE parser \o "_loop")
                    ELSE "run_check"
    /\ pos' = 0
    /\ ruleCount' = 0
    /\ UNCHANGED <<m_abort, m_filePath, m_filter, cpc, calls, signals, parsersRun,
                   abortReq, sinceAbort, added, got>>

\* the text parsers have no uninitialized locals
NoGarbage == { [buf |-> NoLocals.buf, word |-> NoLocals.start] }

DATOpen == wpc = "dat_open" /\ OpenFile("dat", DatFiles, NoGarbage)
P2POpen == wpc = "p2p_open" /\ OpenFile("p2p", P2PFiles, NoGarbage)
P2BOpen == wpc = "p2b_open" /\ OpenFile("p2b", P2BFiles, Garbage)

\* a loop that goes on to the end of the file whatever m_abort holds
TextLoopIgnoresAbort(parser) ==
    /\ wpc = parser \o "_loop"
    /\ wpc' = IF pos < Len(file.data) THEN parser \o "_body" ELSE "run_check"
    /\ UNCHANGED <<m_abort, m_filePath, m_filter, cpc, calls, file, pos, ruleCount,
                   loc, signals, log, parsersRun, abortReq, sinceAbort, added, got>>

\* while (!file.atEnd() && !m_abort)
TextLoop(parser) ==
    /\ wpc = parser \o "_loop"
    /\ wpc' = IF pos < Len(file.data) /\ ~m_abort THEN parser \o "_body" ELSE "run_check"
    /\ UNCHANGED <<m_abort, m_filePath, m_filter, cpc, calls, file, pos, ruleCount,
                   loc, signals, log, parsersRun, abortReq, sinceAbort, added, got>>

\* a loop body that gives up the file at the first line it cannot use
TextBodyStopsAtBadLine(parser, parsed) ==
    /\ wpc = parser \o "_body"
    /\ pos' = pos + 1
    /\ IF parsed.kind = "rule" /\ ~add_rule_throws(parsed.first, parsed.last)
       THEN /\ m_filter' = add_rule(m_filter, parsed.first, parsed.last)
            /\ ruleCount' = ruleCount + 1
            /\ wpc' = parser \o "_loop"
       ELSE /\ UNCHANGED <<m_filter, ruleCount>>
            /\ wpc' = IF parsed.kind \in {"empty", "comment", "access"}
                      THEN parser \o "_loop" ELSE "run_check"
    /\ Decoded(ruleCount' - ruleCount)
    /\ UNCHANGED <<m_abort, m_filePath, cpc, calls, file, loc, signals, log,
                   parsersRun, abortReq, got>>

\* a loop body that adds the range whenever both addresses parse, with
\* neither the test of the families nor an add_rule that refuses
TextBodyNoFamilyGuard(parser, parsed) ==
    /\ wpc = parser \o "_body"
    /\ pos' = pos + 1
    /\ IF parsed.kind \in {"rule", "family"}
       THEN LET line   == trimmed(file.data[pos + 1])
                fields == split(line, IF parser = "dat" THEN "," ELSE ":")
                IPs    == split(fields[IF parser = "dat" THEN 1 ELSE Len(fields)], "-")
            IN  /\ m_filter' = add_rule(m_filter, parseIPAddress(IPs[1]).addr,
                                                  parseIPAddress(IPs[2]).addr)
                /\ ruleCount' = ruleCount + 1
       ELSE UNCHANGED <<m_filter, ruleCount>>
    /\ wpc' = parser \o "_loop"
    /\ Decoded(ruleCount' - ruleCount)
    /\ UNCHANGED <<m_abort, m_filePath, cpc, calls, file, loc, signals, log,
                   parsersRun, abortReq, got>>

\* one pass of the loop body: readLine, the parse of the line, add_rule
TextBody(parser, parsed) ==
    /\ wpc = parser \o "_body"
    /\ pos' = pos + 1
    /\ IF parsed.kind = "rule" /\ ~add_rule_throws(parsed.first, parsed.last)
       THEN /\ m_filter' = add_rule(m_filter, parsed.first, parsed.last)
            /\ ruleCount' = ruleCount + 1
       ELSE UNCHANGED <<m_filter, ruleCount>>
    /\ wpc' = parser \o "_loop"
    /\ Decoded(ruleCount' - ruleCount)
    /\ UNCHANGED <<m_abort, m_filePath, cpc, calls, file, loc, signals, log,
                   parsersRun, abortReq, got>>

\* what the loop bodies make of each line that a file can hold, computed
\* once
DATParsed == [raw \in DatLinePool |-> ParseDATLine(raw)]
P2PParsed == [raw \in P2PLinePool |-> ParseP2PLine(raw)]

DATLoop == wpc = "dat_loop" /\ TextLoop("dat")
DATBody == wpc = "dat_body" /\ TextBody("dat", DATParsed[file.data[pos + 1]])
P2PLoop == wpc = "p2p_loop" /\ TextLoop("p2p")
P2PBody == wpc = "p2p_body" /\ TextBody("p2p", P2PParsed[file.data[pos + 1]])

\* run() without its test of m_abort: every run goes on to the emit
RunCheckNoAbortTest ==
    /\ wpc = "run_check"
    /\ wpc' = "run_emit"
    /\ UNCHANGED <<m_abort, m_filePath, m_filter, cpc, calls, file, pos, ruleCount,
                   loc, signals, log, parsersRun, abortReq, sinceAbort, added, got>>

\* run() that returns without a signal when no rule was parsed
RunCheckSilentWhenEmpty ==
    /\ wpc = "run_check"
    /\ wpc' = IF m_abort \/ ruleCount = 0 THEN "finished" ELSE "run_emit"
    /\ UNCHANGED <<m_abort, m_filePath, m_filter, cpc, calls, file, pos, ruleCount,
                   loc, signals, log, parsersRun, abortReq, sinceAbort, added, got>>

\* if (m_abort) return;
RunCheck ==
    /\ wpc = "run_check"
    /\ wpc' = IF m_abort THEN "finished" ELSE "run_emit"
    /\ UNCHANGED <<m_abort, m_filePath, m_filter, cpc, calls, file, pos, ruleCount,
                   loc, signals, log, parsersRun, abortReq, sinceAbort, added, got>>

\* emit IPFilterParsed(ruleCount) returns
RunEmitParsed ==
    /\ wpc = "run_emit"
    /\ signals' = Append(signals, IPFilterParsed(ruleCount))
    /\ wpc' = "finished"
    /\ UNCHANGED <<m_abort, m_filePath, m_filter, cpc, calls, file, pos, ruleCount,
                   loc, log, parsersRun, abortReq, sinceAbort, added, got>>

\* emit IPFilterParsed(ruleCount) throws, IPFilterError is emitted
RunEmitError ==
    /\ wpc = "run_emit"
    /\ signals' = Append(signals, IPFilterError)
    /\ wpc' = "finished"
    /\ UNCHANGED <<m_abort, m_filePath, m_filter, cpc, calls, file, pos, ruleCount,
                   loc, log, parsersRun, abortReq, sinceAbort, added, got>>

(***************************************************************************)
(* The worker: parseP2BFilterFile.                                         *)
(***************************************************************************)
\* the parser logs the parsing error and returns ruleCount
Fatal ==
    /\ log' = Append(log, ParsingError)
    /\ wpc' = "run_check"

\* a branch that takes every version other than 3 for version 1 or 2
VersionBranchLax(version) ==
    IF version = 3 THEN "p2b3_namecount" ELSE "p2b12_loop"

\* the branch on the version byte
VersionBranch(version) ==
    IF version = 1 \/ version = 2 THEN "p2b12_loop"
    ELSE IF version = 3 THEN "p2b3_namecount"
    ELSE "fatal"

\* the header: 7 bytes of magic, the version byte, the branch on the version
P2BHeader ==
    /\ wpc = "p2b_header"
    /\ LET bytes   == file.data
           n1      == readRawData(bytes, 0, 7)
           buf     == ReadInto(loc.buf, bytes, 0, 7)
           magicOk == n1 # 0 /\ buf = Magic
           n2      == IF magicOk THEN readRawData(bytes, n1, 1) ELSE 0
           version == bytes[n1 + 1]
       IN  /\ loc' = [loc EXCEPT !.buf = buf]
           /\ pos' = n1 + n2
           /\ IF ~magicOk \/ n2 = 0 THEN Fatal
              ELSE IF VersionBranch(version) = "fatal" THEN Fatal
              ELSE wpc' = VersionBranch(version) /\ log' = log
    /\ UNCHANGED <<m_abort, m_filePath, m_filter, cpc, calls, file, ruleCount,
                   signals, parsersRun, abortReq, sinceAbort, added, got>>

\* while (getlineInStream(stream, name, '\0') && !m_abort)
P2B12Loop ==
    /\ wpc = "p2b12_loop"
    /\ LET n == getlineInStream(file.data, pos, 0)
       IN  /\ pos' = pos + n
           /\ wpc' = IF n # 0 /\ ~m_abort THEN "p2b12_body" ELSE "run_check"
    /\ UNCHANGED <<m_abort, m_filePath, m_filter, cpc, calls, file, ruleCount, loc,
                   signals, log, parsersRun, abortReq, sinceAbort, added, got>>

\* the body of that loop: start, end, add_rule
P2B12Body ==
    /\ wpc = "p2b12_body"
    /\ LET bytes == file.data
           ns    == readRawData(bytes, pos, 4)
           start == ReadInto(loc.start, bytes, pos, 4)
           ne    == IF ns = 0 THEN 0 ELSE readRawData(bytes, pos + ns, 4)
           end   == IF ns = 0 THEN loc.end ELSE ReadInto(loc.end, bytes, pos + ns, 4)
           first == address_v4(ntohl(LoadWord(start)))
           last  == address_v4(ntohl(LoadWord(end)))
       IN  /\ pos' = pos + ns + ne
           /\ loc' = [loc EXCEPT !.start = start, !.end = end]
           /\ IF ns = 0 \/ ne = 0
              THEN Fatal /\ UNCHANGED <<m_filter, ruleCount>>
              ELSE /\ IF add_rule_throws(first, last)
                      THEN UNCHANGED <<m_filter, ruleCount>>
                      ELSE /\ m_filter' = add_rule(m_filter, first, last)
                           /\ ruleCount' = ruleCount + 1
                   /\ wpc' = "p2b12_loop"
                   /\ log' = log
    /\ Decoded(ruleCount' - ruleCount)
    /\ UNCHANGED <<m_abort, m_filePath, cpc, calls, file, signals, parsersRun,
                   abortReq, got>>

\* version 3: namecount
P2B3NameCount ==
    /\ wpc = "p2b3_namecount"
    /\ LET n == readRawData(file.data, pos, 4)
       IN  /\ pos' = pos + n
           /\ loc' = [loc EXCEPT !.namecount = ReadInto(loc.namecount, file.data, pos, 4),
                                 !.i = 0]
           /\ IF n = 0 THEN Fatal ELSE wpc' = "p2b3_name" /\ log' = log
    /\ UNCHANGED <<m_abort, m_filePath, m_filter, cpc, calls, file, ruleCount,
                   signals, parsersRun, abortReq, sinceAbort, added, got>>

\* a loop over the names that tries the read again when the stream gives
\* nothing
P2B3NameRetriesAtEnd ==
    /\ wpc = "p2b3_name"
    /\ IF IndexBelow(loc.i, ntohl(LoadWord(loc.namecount)))
       THEN LET n == getlineInStream(file.data, pos, 0)
            IN  /\ pos' = pos + n
                /\ IF n = 0 THEN UNCHANGED <<wpc, log, loc, sinceAbort, added>>
                   ELSE /\ log' = log
                        /\ Decoded(0)
                        /\ IF m_abort
                           THEN wpc' = "run_check" /\ loc' = loc
                           ELSE wpc' = "p2b3_name" /\ loc' = [loc EXCEPT !.i = loc.i + 1]
       ELSE /\ wpc' = "p2b3_rangecount"
            /\ UNCHANGED <<pos, loc, log, sinceAbort, added>>
    /\ UNCHANGED <<m_abort, m_filePath, m_filter, cpc, calls, file, ruleCount,
                   signals, parsersRun, abortReq, got>>

\* version 3: one pass of the loop over the names, or its end
P2B3Name ==
    /\ wpc = "p2b3_name"
    /\ IF IndexBelow(loc.i, ntohl(LoadWord(loc.namecount)))
       THEN LET n == getlineInStream(file.data, pos, 0)
            IN  /\ pos' = pos + n
                /\ IF n = 0 THEN Fatal /\ loc' = loc /\ UNCHANGED <<sinceAbort, added>>
                   ELSE /\ log' = log
                        /\ Decoded(0)
                        /\ IF m_abort
                           THEN wpc' = "run_check" /\ loc' = loc
                           ELSE wpc' = "p2b3_name" /\ loc' = [loc EXCEPT !.i = loc.i + 1]
       ELSE /\ wpc' = "p2b3_rangecount"
            /\ UNCHANGED <<pos, loc, log, sinceAbort, added>>
    /\ UNCHANGED <<m_abort, m_filePath, m_filter, cpc, calls, file, ruleCount,
                   signals, parsersRun, abortReq, got>>

\* version 3: rangecount
P2B3RangeCount ==
    /\ wpc = "p2b3_rangecount"
    /\ LET n == readRawData(file.data, pos, 4)
       IN  /\ pos' = pos + n
           /\ loc' = [loc EXCEPT !.rangecount = ReadInto(loc.rangecount, file.data, pos, 4),
                                 !.i = 0]
           /\ IF n = 0 THEN Fatal ELSE wpc' = "p2b3_range" /\ log' = log
    /\ UNCHANGED <<m_abort, m_filePath, m_filter, cpc, calls, file, ruleCount,
                   signals, parsersRun, abortReq, sinceAbort, added, got>>

\* version 3: one pass of the loop over the ranges up to add_rule, or its end
P2B3Range ==
    /\ wpc = "p2b3_range"
    /\ IF IndexBelow(loc.i, ntohl(LoadWord(loc.rangecount)))
       THEN LET bytes == file.data
                nn    == readRawData(bytes, pos, 4)
                ns    == IF nn = 0 THEN 0 ELSE readRawData(bytes, pos + nn, 4)
                ne    == IF ns = 0 THEN 0 ELSE readRawData(bytes, pos + nn + ns, 4)
                name  == ReadInto(loc.name, bytes, pos, 4)
                start == IF nn = 0 THEN loc.start ELSE ReadInto(loc.start, bytes, pos + nn, 4)
                end   == IF ns = 0 THEN loc.end ELSE ReadInto(loc.end, bytes, pos + nn + ns, 4)
                first == address_v4(ntohl(LoadWord(start)))
                last  == address_v4(ntohl(LoadWord(end)))
            IN  /\ pos' = pos + nn + ns + ne
                /\ loc' = [loc EXCEPT !.name = name, !.start = start, !.end = end]
                /\ IF ne = 0
                   THEN Fatal /\ UNCHANGED <<m_filter, ruleCount>>
                   ELSE /\ IF add_rule_throws(first, last)
                           THEN UNCHANGED <<m_filter, ruleCount>>
                           ELSE /\ m_filter' = add_rule(m_filter, first, last)
                                /\ ruleCount' = ruleCount + 1
                        /\ wpc' = "p2b3_range_abort"
                        /\ log' = log
                /\ Decoded(ruleCount' - ruleCount)
       ELSE /\ wpc' = "run_check"
            /\ UNCHANGED <<m_filter, pos, ruleCount, loc, log, sinceAbort, added>>
    /\ UNCHANGED <<m_abort, m_filePath, cpc, calls, file, signals, parsersRun,
                   abortReq, got>>

\* version 3: if (m_abort) return ruleCount; at the end of a pass over a range
P2B3RangeAbort ==
    /\ wpc = "p2b3_range_abort"
    /\ IF m_abort
       THEN wpc' = "run_check" /\ loc' = loc
       ELSE wpc' = "p2b3_range" /\ loc' = [loc EXCEPT !.i = loc.i + 1]
    /\ UNCHANGED <<m_abort, m_filePath, m_filter, cpc, calls, file, pos, ruleCount,
                   signals, log, parsersRun, abortReq, sinceAbort, added, got>>

(***************************************************************************)
(* The specification.                                                      *)
(***************************************************************************)
Next ==
    \/ PFEnter
    \/ PFAbort
    \/ PFWait
    \/ PFReset
    \/ PFPath
    \/ PFFilter
    \/ PFStart
    \/ IPfilter
    \/ DtorAbort
    \/ DtorWait
    \/ RunDispatch
    \/ DATOpen
    \/ DATLoop
    \/ DATBody
    \/ P2POpen
    \/ P2PLoop
    \/ P2PBody
    \/ P2BOpen
    \/ P2BHeader
    \/ P2B12Loop
    \/ P2B12Body
    \/ P2B3NameCount
    \/ P2B3Name
    \/ P2B3RangeCount
    \/ P2B3Range
    \/ P2B3RangeAbort
    \/ RunCheck
    \/ RunEmitParsed
    \/ RunEmitError

Spec == Init /\ [][Next]_vars

\* the steps of the thread, from run() to its return
Worker ==
    \/ RunDispatch
    \/ DATOpen
    \/ DATLoop
    \/ DATBody
    \/ P2POpen
    \/ P2PLoop
    \/ P2PBody
    \/ P2BOpen
    \/ P2BHeader
    \/ P2B12Loop
    \/ P2B12Body
    \/ P2B3NameCount
    \/ P2B3Name
    \/ P2B3RangeCount
    \/ P2B3Range
    \/ P2B3RangeAbort
    \/ RunCheck
    \/ RunEmitParsed
    \/ RunEmitError

\* the steps that are bound to happen: a started thread is scheduled until
\* run() returns, and a caller inside wait() goes on once the thread has
\* finished.  A step of the thread and the return of a wait() are never
\* enabled together, so one fairness condition on the three is fairness on
\* each.  The caller is free never to call again.
Progress == Worker \/ PFWait \/ DtorWait

FairSpec == Spec /\ WF_vars(Progress)

(***************************************************************************)
(* Properties.                                                             *)
(***************************************************************************)
\* the parser of this run has returned to run()
ParserReturned == wpc \in {"run_check", "run_emit", "finished"}

\* C1, as stated: a run during which m_abort was set, at whatever moment,
\* emits neither IPFilterParsed nor IPFilterError.
C1_NoSignalOnceAbortRequested == abortReq # "no" => signals = <<>>

\* C1, amended: a run during which m_abort was set before run() made its
\* test of the flag (line 422) emits no signal; a request that arrives
\* after that test no longer stops the emit.
C1_NoSignalWhenAbortedBeforeTest == abortReq = "early" => signals = <<>>

\* a run cancelled in the middle of its file has ended without a signal
C1_Witness ==
    /\ wpc = "finished"
    /\ abortReq = "early"
    /\ ruleCount > 0
    /\ pos < Len(file.data)
    /\ signals = <<>>

\* C2: while the caller is between the wait() of processFilterFile and its
\* start(), the lines that write m_abort, m_filePath and m_filter, no run is
\* in progress.
C2_CallerWritesOnlyWhenStopped ==
    cpc \in {"pf_reset", "pf_path", "pf_filter", "pf_start"} => ~isRunning

\* processFilterFile found a run in progress, cancelled it, waited, and is
\* now about to reset the flag
C2_Witness ==
    /\ cpc = "pf_reset"
    /\ wpc = "finished"
    /\ abortReq = "early"
    /\ m_abort

\* a is a proper prefix of b
IsProperPrefix(a, b) == Len(a) < Len(b) /\ SubSeq(b, 1, Len(a)) = a

\* C3, as stated: what IPfilter() returned is empty or the complete set of a
\* finished run, never a set the running parser then adds rules to.
C3_NoPartialSetExposed ==
    got.taken /\ got.value # EmptyFilter => ~IsProperPrefix(got.value, m_filter)

\* C4: a run during which m_abort was never set ends with exactly one
\* signal: IPFilterParsed with the count the parser returned, or
\* IPFilterError in its place when that emit threw; this includes the runs
\* that logged an error and the runs that called no parser.
C4_OneSignalPerUncancelledRun ==
    /\ Len(signals) <= 1
    /\ \A k \in 1..Len(signals) : signals[k] \in {IPFilterParsed(ruleCount), IPFilterError}
    /\ (wpc = "finished" /\ abortReq = "no") => Len(signals) = 1
    /\ (file.st \in {"missing", "unopenable"} \/ parsersRun = <<>>) => ruleCount = 0

\* a run that hit a fatal format error after one rule has emitted
\* IPFilterParsed(1)
C4_Witness ==
    /\ wpc = "finished"
    /\ abortReq = "no"
    /\ log = <<ParsingError>>
    /\ ruleCount = 1
    /\ signals = <<IPFilterParsed(1)>>

\* the caller has not yet replaced m_filePath or m_filter for a next run
RunStateKept == cpc \notin {"pf_filter", "pf_start"}

\* the last four characters of a path, in lower case
ExtensionOf(path) ==
    IF Len(path) >= 4 THEN toLowerText(SubSeq(path, Len(path) - 3, Len(path))) ELSE <<>>

ParsersFor(path) ==
    IF ExtensionOf(path) = <<".", "p", "2", "p">> THEN <<"p2p">>
    ELSE IF ExtensionOf(path) = <<".", "p", "2", "b">> THEN <<"p2b">>
    ELSE IF ExtensionOf(path) = <<".", "d", "a", "t">> THEN <<"dat">>
    ELSE <<>>

\* C5: once run() has dispatched, the parsers it called are exactly the one
\* the extension of m_filePath names, case ignored: p2p, p2b or dat, and
\* none for any other extension; with no parser called the run opens no
\* file, adds no rule, logs nothing and, if not cancelled, ends with
\* IPFilterParsed(0) (IPFilterError only when that emit threw).
C5_DispatchByExtension ==
    (wpc \notin {"idle", "run"} /\ RunStateKept) =>
        /\ parsersRun = ParsersFor(m_filePath)
        /\ parsersRun = <<>> =>
              /\ file = NoFile
              /\ m_filter = EmptyFilter
              /\ ruleCount = 0
              /\ log = <<>>
              /\ (wpc = "finished" /\ abortReq = "no") =>
                    signals \in {<<IPFilterParsed(0)>>, <<IPFilterError>>}

\* a path with an upper-case extension was parsed by the P2B parser
C5_Witness ==
    /\ wpc = "finished"
    /\ m_filePath = <<"a", ".", "P", "2", "B">>
    /\ parsersRun = <<"p2b">>
    /\ ruleCount = 2
    /\ signals = <<IPFilterParsed(2)>>

\* what a run that could not read its file leaves behind, but for the log
NoRulesFromFile ==
    /\ ruleCount = 0
    /\ m_filter = EmptyFilter
    /\ ParserReturned
    /\ (wpc = "finished" /\ abortReq = "no") =>
          signals \in {<<IPFilterParsed(0)>>, <<IPFilterError>>}

\* C6, as stated: for a missing file and for a file that cannot be opened
\* alike, the I/O error is logged, no rule is added, the parser returns 0
\* and the run ends with IPFilterParsed(0).
C6_MissingAndUnopenableLogged ==
    file.st \in {"missing", "unopenable"} => log = <<IOError>> /\ NoRulesFromFile

\* C6, amended: a file that cannot be opened is logged as an I/O error; a
\* missing file is not logged at all; in both cases no rule is added, the
\* parser returns 0 and the run ends with IPFilterParsed(0).
C6_OnlyUnopenableLogged ==
    /\ file.st = "unopenable" => log = <<IOError>> /\ NoRulesFromFile
    /\ file.st = "missing" => log = <<>> /\ NoRulesFromFile

\* a run of the P2B parser on a missing file has ended with IPFilterParsed(0)
C6_Witness ==
    /\ wpc = "finished"
    /\ file.st = "missing"
    /\ parsersRun = <<"p2b">>
    /\ log = <<>>
    /\ signals = <<IPFilterParsed(0)>>

\* a range text with two addresses of one family
WellFormedRange(text) ==
    LET IPs == split(text, "-")
    IN  /\ Len(IPs) = 2
        /\ parseIPAddress(IPs[1]).ok
        /\ parseIPAddress(IPs[2]).ok
        /\ parseIPAddress(IPs[1]).addr.fam = parseIPAddress(IPs[2]).addr.fam

RangeOfText(text) ==
    LET IPs == split(text, "-")
    IN  [first |-> parseIPAddress(IPs[1]).addr, last |-> parseIPAddress(IPs[2]).addr]

\* C7: a pass of the DAT loop over a line that is neither blank nor a
\* comment adds no rule when the line has a second comma field whose
\* trimmed text is an int above 127; otherwise (field at most 127, not a
\* number, or absent) it adds exactly one rule if the range is well formed.
C7_AccessLevel ==
    [][ (wpc = "dat_body" /\ wpc' = "dat_loop") =>
          LET line   == trimmed(file.data[pos + 1])
              fields == split(line, ",")
          IN  (line # <<>> /\ ~IsComment(line)) =>
                 IF Len(fields) > 1 /\ toInt(trimmed(fields[2])) > 127
                 THEN m_filter' = m_filter /\ ruleCount' = ruleCount
                 ELSE WellFormedRange(fields[1]) =>
                         /\ m_filter' = Append(m_filter, RangeOfText(fields[1]))
                         /\ ruleCount' = ruleCount + 1 ]_vars

\* the DAT parser has passed a first line with access 128 and added nothing,
\* then a line whose access field is no number and added its rule
C7_Witness ==
    /\ wpc = "dat_loop"
    /\ pos = 2
    /\ Len(split(trimmed(file.data[1]), ",")) > 1
    /\ toInt(trimmed(split(trimmed(file.data[1]), ",")[2])) = 128
    /\ Len(split(trimmed(file.data[2]), ",")) > 1
    /\ split(trimmed(file.data[2]), ",")[2] = <<"x">>
    /\ ruleCount = 1

\* the lines of a text file that are block rules, by format
DatBlockRule(raw) ==
    LET line   == trimmed(raw)
        fields == split(line, ",")
    IN  /\ line # <<>>
        /\ ~IsComment(line)
        /\ Len(fields) > 1 => toInt(trimmed(fields[2])) <= 127
        /\ WellFormedRange(fields[1])

P2PBlockRule(raw) ==
    LET line   == trimmed(raw)
        fields == split(line, ":")
    IN  /\ line # <<>>
        /\ ~IsComment(line)
        /\ Len(fields) >= 2
        /\ WellFormedRange(fields[Len(fields)])

RECURSIVE RulesOfLines(_, _)
RulesOfLines(lines, format) ==
    IF lines = <<>> THEN <<>>
    ELSE LET raw == Head(lines)
             one == IF format = "dat"
                    THEN (IF DatBlockRule(raw)
                          THEN <<RangeOfText(split(trimmed(raw), ",")[1])>> ELSE <<>>)
                    ELSE (IF P2PBlockRule(raw)
                          THEN <<RangeOfText(split(trimmed(raw), ":")[Len(split(trimmed(raw), ":"))])>>
                          ELSE <<>>)
         IN  one \o RulesOfLines(Tail(lines), format)

\* C8: when a text parser returns to run() from a file it read without a
\* cancellation, it has read every line, and the rules added are, in
\* order, one per well-formed block-rule line, each line judged on its
\* own; the count returned is their number.
C8_ErrorIsolation ==
    (/\ wpc = "run_check"
     /\ parsersRun \in {<<"dat">>, <<"p2p">>}
     /\ file.st = "ok"
     /\ abortReq = "no") =>
        /\ pos = Len(file.data)
        /\ m_filter = RulesOfLines(file.data, parsersRun[1])
        /\ ruleCount = Len(m_filter)

\* a DAT file with a line without a dash before a well-formed line has
\* given one rule
C8_Witness ==
    /\ wpc = "run_check"
    /\ parsersRun = <<"dat">>
    /\ abortReq = "no"
    /\ Len(file.data) = 2
    /\ file.data[1] = A1 \o <<",", "5", "0">>
    /\ DatBlockRule(file.data[2])
    /\ ruleCount = 1

\* 7 bytes of magic and a version byte 1, 2 or 3
ValidP2BHeader(bytes) ==
    /\ Len(bytes) >= 8
    /\ SubSeq(bytes, 1, 7) = <<255, 255, 255, 255, 80, 50, 66>>
    /\ bytes[8] \in {1, 2, 3}

\* C9: once the P2B parser is past the header of a file that does not
\* begin with the 7 magic bytes and a version byte 1, 2 or 3, it has
\* returned with the parsing error logged, no rule added, a count of 0 and
\* nothing read beyond the 8 bytes of the header.
C9_HeaderGate ==
    (/\ parsersRun = <<"p2b">>
     /\ file.st = "ok"
     /\ wpc # "p2b_header"
     /\ ~ValidP2BHeader(file.data)) =>
        /\ ParserReturned
        /\ log = <<ParsingError>>
        /\ ruleCount = 0
        /\ m_filter = EmptyFilter
        /\ pos <= 8

\* a file of 3 bytes, with the rest of buf holding by chance what the magic
\* has there, was rejected
C9_Witness ==
    /\ parsersRun = <<"p2b">>
    /\ wpc = "finished"
    /\ Len(file.data) = 3
    /\ loc.buf = Magic
    /\ log = <<ParsingError>>
    /\ signals = <<IPFilterParsed(0)>>

\* the records of a version 1 or 2 file from offset p on: the number of
\* complete ones, and whether the file ends inside a record after its name
RECURSIVE RecordScan(_, _, _)
RecordScan(bytes, p, k) ==
    LET n == getlineInStream(bytes, p, 0)
    IN  IF n = 0 THEN [complete |-> k, truncated |-> FALSE]
        ELSE IF Len(bytes) - (p + n) < 8 THEN [complete |-> k, truncated |-> TRUE]
        ELSE RecordScan(bytes, p + n + 8, k + 1)

\* C10, as stated: when the version 1 or 2 parser returns, uncancelled,
\* from a file that ends inside a record after its name (0 to 7 of the 8
\* bytes of start and end are there), the parsing error is logged and the
\* count returned and the rules added are those of the complete records.
C10_TruncatedRecordIsFatal ==
    (/\ parsersRun = <<"p2b">>
     /\ file.st = "ok"
     /\ ParserReturned
     /\ abortReq = "no"
     /\ RunStateKept
     /\ ValidP2BHeader(file.data)
     /\ file.data[8] \in {1, 2}
     /\ RecordScan(file.data, 8, 0).truncated) =>
        /\ log = <<ParsingError>>
        /\ ruleCount = RecordScan(file.data, 8, 0).complete
        /\ Len(m_filter) = RecordScan(file.data, 8, 0).complete

\* the rules of the complete records of a version 1 or 2 file from offset p
\* on: the 4 bytes after the name, most significant first, are the first
\* address, the next 4 the last
RECURSIVE RecordRules(_, _)
RecordRules(bytes, p) ==
    LET n == getlineInStream(bytes, p, 0)
        q == p + n
    IN  IF n = 0 \/ Len(bytes) - q < 8 THEN <<>>
        ELSE <<[first |-> [fam |-> 4, val |-> SubSeq(bytes, q + 1, q + 4)],
                last  |-> [fam |-> 4, val |-> SubSeq(bytes, q + 5, q + 8)]]>>
             \o RecordRules(bytes, q + 8)

\* C11: when the version 1 or 2 parser returns, uncancelled, from a file
\* with a valid header followed by k complete records and then the end of
\* the stream, nothing is logged, the count is k, and the rules added are,
\* in order, the IPv4 ranges whose bounds are the big-endian values of the
\* start and end words of the records.
C11_CompleteRecordsGiveRules ==
    (/\ wpc = "run_check"
     /\ parsersRun = <<"p2b">>
     /\ file.st = "ok"
     /\ abortReq = "no"
     /\ ValidP2BHeader(file.data)
     /\ file.data[8] \in {1, 2}
     /\ ~RecordScan(file.data, 8, 0).truncated) =>
        /\ log = <<>>
        /\ ruleCount = RecordScan(file.data, 8, 0).complete
        /\ m_filter = RecordRules(file.data, 8)

\* a version 1 file of two complete records, the second with an empty name,
\* gave the rules 1.2.3.4-1.2.3.9 and 5.6.7.8-5.6.7.9
C11_Witness ==
    /\ wpc = "run_check"
    /\ parsersRun = <<"p2b">>
    /\ abortReq = "no"
    /\ file.data = Hdr(1) \o Rec(<<97>>, <<1, 2, 3, 4>>, <<1, 2, 3, 9>>)
                          \o Rec(<<>>, <<5, 6, 7, 8>>, <<5, 6, 7, 9>>)
    /\ log = <<>>
    /\ ruleCount = 2
    /\ m_filter = <<[first |-> V4(<<1, 2, 3, 4>>), last |-> V4(<<1, 2, 3, 9>>)],
                    [first |-> V4(<<5, 6, 7, 8>>), last |-> V4(<<5, 6, 7, 9>>)]>>

\* whether the 32-bit word w, most significant byte first, is above i
WordAbove(w, i) == w[1] > 0 \/ w[2] > 0 \/ w[3] > 0 \/ w[4] > i

\* where the table of names of a version 3 file ends, from the i-th name at
\* offset p on, w being the number of names; -1 when the file ends before
\* the terminator of one of them
RECURSIVE V3NamesEnd(_, _, _, _)
V3NamesEnd(bytes, p, i, w) ==
    IF ~WordAbove(w, i) THEN p
    ELSE LET n == getlineInStream(bytes, p, 0)
         IN  IF n = 0 \/ bytes[p + n] # 0 THEN -1
             ELSE V3NamesEnd(bytes, p + n, i + 1, w)

\* the entries of a version 3 file from the i-th at offset p on, w being
\* their number: the rules of the complete ones, and whether the file ends
\* before the 12 bytes of one of them
RECURSIVE V3Entries(_, _, _, _)
V3Entries(bytes, p, i, w) ==
    IF ~WordAbove(w, i) THEN [rules |-> <<>>, truncated |-> FALSE]
    ELSE IF Len(bytes) - p < 12 THEN [rules |-> <<>>, truncated |-> TRUE]
    ELSE LET rest == V3Entries(bytes, p + 12, i + 1, w)
         IN  [rules |-> <<[first |-> [fam |-> 4, val |-> SubSeq(bytes, p + 5, p + 8)],
                           last  |-> [fam |-> 4, val |-> SubSeq(bytes, p + 9, p + 12)]]>>
                        \o rest.rules,
              truncated |-> rest.truncated]

\* a version 3 file with a valid header: the rules of its complete entries,
\* whether it ends before all that its counts announce, and whether its
\* rangecount is there
V3Scan(bytes) ==
    LET cut == [rules |-> <<>>, truncated |-> TRUE, counted |-> FALSE]
    IN  IF Len(bytes) < 12 THEN cut
        ELSE LET q == V3NamesEnd(bytes, 12, 0, SubSeq(bytes, 9, 12))
             IN  IF q = -1 \/ Len(bytes) - q < 4 THEN cut
                 ELSE LET e == V3Entries(bytes, q + 4, 0, SubSeq(bytes, q + 1, q + 4))
                      IN  [rules |-> e.rules, truncated |-> e.truncated, counted |-> TRUE]

\* a file that its format's parser reads to the end without a fatal error
WellFormedFile(parser, f) ==
    /\ f.st = "ok"
    /\ parser = "p2b" =>
          /\ ValidP2BHeader(f.data)
          /\ f.data[8] \in {1, 2} => ~RecordScan(f.data, 8, 0).truncated
          /\ f.data[8] = 3 => ~V3Scan(f.data).truncated

\* the rules of a well-formed file, from its content alone
RulesOfFile(parser, f) ==
    IF parser \in {"dat", "p2p"} THEN RulesOfLines(f.data, parser)
    ELSE IF f.data[8] = 3 THEN V3Scan(f.data).rules
    ELSE RecordRules(f.data, 8)

\* C12: when a parser returns, uncancelled, from a well-formed file, in the
\* first run of the instance or in a later one, the range set holds the
\* rules of that file and nothing else, and the count is their number:
\* the result is a function of the file, whatever the runs before it did.
C12_ResultDependsOnFileOnly ==
    (/\ wpc = "run_check"
     /\ abortReq = "no"
     /\ Len(parsersRun) = 1
     /\ WellFormedFile(parsersRun[1], file)) =>
        /\ m_filter = RulesOfFile(parsersRun[1], file)
        /\ ruleCount = Len(m_filter)

\* the run started by a second call of processFilterFile read a DAT file
\* of one range and its set holds that range alone
C12_Witness ==
    /\ calls = 2
    /\ wpc = "run_check"
    /\ abortReq = "no"
    /\ parsersRun = <<"dat">>
    /\ file.data = <<Range(A1, A2)>>
    /\ m_filter = <<[first |-> V4(<<1, 2, 3, 4>>), last |-> V4(<<1, 2, 3, 9>>)]>>
    /\ ruleCount = 1

\* C13, as stated: when the version 3 parser returns, uncancelled, from a
\* file that ends before its namecount, inside its names, before its
\* rangecount or inside one of its entries, the parsing error is logged,
\* and the count returned and the rules added are those of the complete
\* entries before the end.
C13_V3TruncationIsFatal ==
    (/\ wpc = "run_check"
     /\ parsersRun = <<"p2b">>
     /\ file.st = "ok"
     /\ abortReq = "no"
     /\ ValidP2BHeader(file.data)
     /\ file.data[8] = 3
     /\ V3Scan(file.data).truncated) =>
        /\ log = <<ParsingError>>
        /\ m_filter = V3Scan(file.data).rules
        /\ ruleCount = Len(V3Scan(file.data).rules)

\* C14: with m_abort set, the parser of a run reads at most one more
\* record (a line, a record of version 1 or 2, a name or an entry of
\* version 3) and adds at most one more rule before it returns; and a
\* parser that returns from a well-formed file after the flag was set has
\* logged nothing.
C14_CancellationLatency ==
    /\ sinceAbort.records <= 1
    /\ sinceAbort.rules <= 1
    /\ (/\ wpc = "run_check"
        /\ abortReq = "early"
        /\ Len(parsersRun) = 1
        /\ WellFormedFile(parsersRun[1], file)) => log = <<>>

\* the flag was set during a pass over a record of a P2B file; the parser
\* added the rule of that record and returned before the end of the file,
\* with nothing logged
C14_Witness ==
    /\ wpc = "run_check"
    /\ parsersRun = <<"p2b">>
    /\ abortReq = "early"
    /\ sinceAbort = [records |-> 1, rules |-> 1]
    /\ ruleCount = 1
    /\ pos < Len(file.data)
    /\ log = <<>>

\* the range text of a line: before the first comma in a DAT line, after
\* the tag and its colon in a P2P line
RangeTextOf(raw, format) ==
    LET line == trimmed(raw)
    IN  IF format = "dat" THEN (IF line = <<>> THEN <<>> ELSE split(line, ",")[1])
        ELSE LET tag == split(line, ":")[1]
             IN  IF line = <<>> \/ Len(tag) = Len(line) THEN <<>>
                 ELSE SubSeq(line, Len(tag) + 2, Len(line))

\* a line whose range has one IPv4 and one IPv6 address
MixedLine(raw, format) ==
    LET IPs == split(RangeTextOf(raw, format), "-")
    IN  /\ Len(IPs) = 2
        /\ parseIPAddress(IPs[1]).ok
        /\ parseIPAddress(IPs[2]).ok
        /\ parseIPAddress(IPs[1]).addr.fam # parseIPAddress(IPs[2]).addr.fam

\* the lines of that kind that a file can hold
MixedLines ==
    [format \in {"dat", "p2p"} |->
        { raw \in (IF format = "dat" THEN DatLinePool ELSE P2PLinePool) :
            MixedLine(raw, format) }]

\* how many of the first n lines are such lines
RECURSIVE MixedCount(_, _, _)
MixedCount(lines, n, format) ==
    IF n = 0 THEN 0
    ELSE MixedCount(lines, n - 1, format)
         + (IF lines[n] \in MixedLines[format] THEN 1 ELSE 0)

\* C15: every range of the range set has a first and a last address of one
\* family; the text parsers have added nothing for the lines read whose
\* addresses differ in family, so that the size of the set and the count
\* are at most the number of the other lines read; and the set of a P2B
\* run holds IPv4 ranges only.
C15_SameFamily ==
    /\ \A k \in 1..Len(m_filter) : m_filter[k].first.fam = m_filter[k].last.fam
    /\ parsersRun = <<"p2b">> =>
          \A k \in 1..Len(m_filter) : m_filter[k].first.fam = 4
    /\ (wpc \in {"dat_loop", "p2p_loop"} /\ file.st = "ok") =>
          /\ Len(m_filter) <= pos - MixedCount(file.data, pos, parsersRun[1])
          /\ ruleCount <= pos - MixedCount(file.data, pos, parsersRun[1])

\* the DAT parser has read the line ::1-1.2.3.9 and a line that gave a
\* rule: one rule for two lines
C15_Witness ==
    /\ wpc = "dat_loop"
    /\ pos = 2
    /\ file.data[1] \in MixedLines["dat"]
    /\ Len(m_filter) = 1
    /\ ruleCount = 1

\* a text of exactly four fields between dots, each a decimal number
FourOctets(t) ==
    LET parts == split(t, ".")
    IN  Len(parts) = 4 /\ \A i \in 1..4 : AllDigits(parts[i])

\* the text that the address-literal parser is to be given: the leading
\* zeros of each octet gone when the trimmed text is four octets, the
\* trimmed text as it is otherwise
NormalForm(text) ==
    LET t == trimmed(text)
    IN  IF FourOctets(t)
        THEN join([i \in 1..4 |-> DropLeadingZeros(split(t, ".")[i])], ".")
        ELSE t

\* the rule of a DAT line when its addresses are parsed from that text
RuleByNormalForm(raw) ==
    LET line   == trimmed(raw)
        fields == split(line, ",")
        IPs    == split(fields[1], "-")
        a      == from_string(NormalForm(IPs[1]))
        b      == from_string(NormalForm(IPs[2]))
    IN  IF /\ line # <<>>
           /\ ~IsComment(line)
           /\ Len(fields) > 1 => toInt(trimmed(fields[2])) <= 127
           /\ Len(IPs) = 2
           /\ a.ok
           /\ b.ok
           /\ a.addr.fam = b.addr.fam
        THEN <<[first |-> a.addr, last |-> b.addr]>>
        ELSE <<>>

RECURSIVE RulesByNormalForm(_)
RulesByNormalForm(lines) ==
    IF lines = <<>> THEN <<>>
    ELSE RuleByNormalForm(Head(lines)) \o RulesByNormalForm(Tail(lines))

\* C16, as stated: when the DAT parser returns, uncancelled, the rules
\* added are those of the lines whose two address texts the address-literal
\* parser accepts once trimmed and, if they are exactly four dot-separated
\* decimal octets, rid of the leading zeros of each octet; a text that is
\* not four dot-separated octets reaches the address-literal parser as it
\* is.
C16_NormalizedBeforeParsing ==
    (/\ wpc = "run_check"
     /\ parsersRun = <<"dat">>
     /\ file.st = "ok"
     /\ abortReq = "no") =>
        m_filter = RulesByNormalForm(file.data)

\* a line "tag:R" where R is two addresses, each one that parseIPAddress
\* takes, separated by a dash
TaggedRange(raw) ==
    LET IPs == split(RangeTextOf(raw, "p2p"), "-")
    IN  /\ Len(IPs) = 2
        /\ parseIPAddress(IPs[1]).ok
        /\ parseIPAddress(IPs[2]).ok

\* the rules that the body of the DAT loop adds for the line R
RulesOfDatLine(text) ==
    LET parsed == ParseDATLine(text)
    IN  IF parsed.kind = "rule" /\ ~add_rule_throws(parsed.first, parsed.last)
        THEN <<[first |-> parsed.first, last |-> parsed.last]>>
        ELSE <<>>

\* C17, as stated: when the P2P parser returns, uncancelled, from a file of
\* the one line "tag:R", R being two addresses separated by a dash, its
\* set and its count are those that the DAT parser gives for the line R.
C17_P2PAgreesWithDAT ==
    (/\ wpc = "run_check"
     /\ parsersRun = <<"p2p">>
     /\ file.st = "ok"
     /\ abortReq = "no"
     /\ Len(file.data) = 1
     /\ TaggedRange(file.data[1])) =>
        /\ m_filter = RulesOfDatLine(RangeTextOf(file.data[1], "p2p"))
        /\ ruleCount = Len(RulesOfDatLine(RangeTextOf(file.data[1], "p2p")))

\* C18: once run() has emitted IPFilterParsed(n), and until the next
\* processFilterFile replaces the set, n is the number of ranges that
\* add_rule took in this run, and the range set holds exactly those ranges.
C18_CountMatchesSetAtEmit ==
    (/\ wpc = "finished"
     /\ Len(signals) = 1
     /\ signals[1].sig = "IPFilterParsed"
     /\ RunStateKept) =>
        /\ signals[1].n = Len(added)
        /\ signals[1].n = ruleCount
        /\ m_filter = added

\* a run has emitted IPFilterParsed(2) and the set holds the two ranges
C18_Witness ==
    /\ wpc = "finished"
    /\ signals = <<IPFilterParsed(2)>>
    /\ Len(added) = 2
    /\ m_filter = added

\* the caller is inside the wait() of processFilterFile or of the destructor
Waiting == cpc \in {"pf_wait", "d_wait"}

\* C19: from every state in which the thread is running or the caller is
\* inside a wait(), a state is reached in which run() has returned and the
\* caller is out of the wait(): every run ends and no wait() lasts forever.
C19_EveryRunTerminates ==
    (isRunning \/ Waiting) ~> (~isRunning /\ ~Waiting)

\* the run on a version 3 file whose namecount is FF FF FF FF, followed by
\* one name, has ended with the parsing error, never cancelled
C19_Witness ==
    /\ wpc = "finished"
    /\ parsersRun = <<"p2b">>
    /\ abortReq = "no"
    /\ file.data = Hdr(3) \o <<255, 255, 255, 255>> \o <<97, 0>>
    /\ loc.i = 1
    /\ log = <<ParsingError>>

====
